---- MODULE Spec2Model ----
(***************************************************************************)
(* Model of the economic core of backend/rust_modules: the valuation       *)
(* primitive (npv.rs), the Newton-Raphson IRR solver (irr.rs), the         *)
(* parallel Monte Carlo simulator (monte_carlo.rs) and the sensitivity     *)
(* sweep (sensitivity.rs).                                                 *)
(*                                                                         *)
(* f64 is modelled by a small decimal floating-point format: Precision     *)
(* significant digits, a smallest quantum of 10^-FracDigits, round to      *)
(* nearest (ties to even), overflow to infinity, NaN.  A finite value is   *)
(* held as its integer count of quanta.  Zero is unsigned: a quotient by   *)
(* zero takes the sign of its numerator.                                   *)
(***************************************************************************)
EXTENDS Integers, Sequences, FiniteSets, TLC

\* ------------------------------------------------------------ the format
\* Significant decimal digits of the modelled f64.
Precision == 5
\* Decimal digits before the point: finite magnitudes stay below 10^IntDigits.
IntDigits == 2
\* `let tolerance = 1e-6`, as the number of decimal places of the literal.
ToleranceDigits == 6
\* The quantum is 10^-FracDigits: the IRR tolerance is one quantum.
FracDigits == ToleranceDigits
TotalDigits == FracDigits + IntDigits

RECURSIVE Pow10(_)
Pow10(k) == IF k <= 0 THEN 1 ELSE 10 * Pow10(k - 1)

RECURSIVE Digits(_)
Digits(n) == IF n = 0 THEN 0 ELSE 1 + Digits(n \div 10)

RECURSIVE TrailingZeros(_)
TrailingZeros(n) == IF n = 0 \/ n % 10 # 0 THEN 0 ELSE 1 + TrailingZeros(n \div 10)

MaxOf(a, b) == IF a >= b THEN a ELSE b
MinOf(a, b) == IF a <= b THEN a ELSE b
AbsInt(n) == IF n < 0 THEN -n ELSE n
SignInt(n) == IF n < 0 THEN -1 ELSE 1

Fin(v) == [k |-> "fin", v |-> v]
PInf == [k |-> "inf", v |-> 1]
NInf == [k |-> "inf", v |-> -1]
NaN == [k |-> "nan", v |-> 0]
Inf(sign) == IF sign < 0 THEN NInf ELSE PInf
IsFin(a) == a.k = "fin"
IsInf(a) == a.k = "inf"
IsNaN(a) == a.k = "nan"
Zero == Fin(0)
One == Fin(Pow10(FracDigits))

\* The magnitude n * 10^s quanta (plus, when sticky, a positive amount below
\* one unit of n's last digit) rounded to the format: the count of quanta,
\* or -1 on overflow.  A sticky n carries at least Precision+1 digits.
RoundMag(n, s, sticky) ==
    LET d == Digits(n)
        q == MaxOf(0, d + s - Precision)
        shift == q - s
    IN  IF n = 0 THEN 0
        ELSE IF shift <= 0
             THEN IF d + s > TotalDigits THEN -1 ELSE n * Pow10(s)
        ELSE IF shift > d THEN 0
        ELSE LET base == Pow10(shift)
                 quot == n \div base
                 rem == n % base
                 half == base \div 2
                 up == rem > half \/ (rem = half /\ (sticky \/ quot % 2 = 1))
                 r == IF up THEN quot + 1 ELSE quot
             IN  IF r = 0 THEN 0
                 ELSE IF Digits(r) + q > TotalDigits THEN -1
                 ELSE r * Pow10(q)

Rounded(sign, n, s, sticky) ==
    LET m == RoundMag(n, s, sticky)
    IN  IF m < 0 THEN Inf(sign) ELSE Fin(sign * m)

\* The integer n as an f64 (`n as f64`, and whole-number literals).
FromInt(n) == Rounded(SignInt(n), AbsInt(n), FracDigits, FALSE)

\* The decimal literal m * 10^-e (0.1 is Dec(1, 1)).
Dec(m, e) == Rounded(SignInt(m), AbsInt(m), FracDigits - e, FALSE)

FNeg(a) == IF IsNaN(a) THEN NaN ELSE [k |-> a.k, v |-> -a.v]
FAbs(a) == IF IsNaN(a) THEN NaN ELSE [k |-> a.k, v |-> AbsInt(a.v)]

FAdd(a, b) ==
    IF IsNaN(a) \/ IsNaN(b) THEN NaN
    ELSE IF IsInf(a) /\ IsInf(b) THEN (IF a.v = b.v THEN a ELSE NaN)
    ELSE IF IsInf(a) THEN a
    ELSE IF IsInf(b) THEN b
    ELSE Rounded(SignInt(a.v + b.v), AbsInt(a.v + b.v), 0, FALSE)

FSub(a, b) == FAdd(a, FNeg(b))

\* The product of two mantissas (each below 10^6), as <<n, s, sticky>>
\* standing for n * 10^s: formed from three-digit limbs so that no
\* intermediate leaves the 32-bit range.
MantProduct(ma, mb) ==
    LET ah == ma \div 1000
        al == ma % 1000
        bh == mb \div 1000
        bl == mb % 1000
        low == al * bl
        top == ah * bh * 1000 + ah * bl + al * bh + (low \div 1000)
    IN  IF top < 1000000 THEN <<top * 1000 + (low % 1000), 0, FALSE>>
        ELSE <<top, 3, low % 1000 # 0>>

FMul(a, b) ==
    IF IsNaN(a) \/ IsNaN(b) THEN NaN
    ELSE IF IsInf(a) \/ IsInf(b)
         THEN IF a.v = 0 \/ b.v = 0 THEN NaN ELSE Inf(SignInt(a.v) * SignInt(b.v))
    ELSE IF a.v = 0 \/ b.v = 0 THEN Zero
    ELSE LET ka == TrailingZeros(AbsInt(a.v))
             kb == TrailingZeros(AbsInt(b.v))
             p == MantProduct(AbsInt(a.v) \div Pow10(ka), AbsInt(b.v) \div Pow10(kb))
         IN  Rounded(SignInt(a.v) * SignInt(b.v), p[1],
                     p[2] + ka + kb - FracDigits, p[3])

\* Long division: `steps` more quotient digits of r / mb onto q.
RECURSIVE LongDiv(_, _, _, _)
LongDiv(q, r, mb, steps) ==
    IF steps = 0 THEN <<q, r>>
    ELSE LongDiv(10 * q + ((10 * r) \div mb), (10 * r) % mb, mb, steps - 1)

FDiv(a, b) ==
    IF IsNaN(a) \/ IsNaN(b) THEN NaN
    ELSE IF IsInf(a) THEN (IF IsInf(b) THEN NaN ELSE Inf(a.v * SignInt(b.v)))
    ELSE IF IsInf(b) THEN Zero
    ELSE IF b.v = 0 THEN (IF a.v = 0 THEN NaN ELSE Inf(SignInt(a.v)))
    ELSE IF a.v = 0 THEN Zero
    ELSE LET ja == Precision - Digits(AbsInt(a.v))
             jb == Precision - Digits(AbsInt(b.v))
             \* both mantissas scaled to exactly Precision digits
             ma == IF ja >= 0 THEN AbsInt(a.v) * Pow10(ja) ELSE AbsInt(a.v) \div Pow10(-ja)
             mb == IF jb >= 0 THEN AbsInt(b.v) * Pow10(jb) ELSE AbsInt(b.v) \div Pow10(-jb)
             qr == LongDiv(ma \div mb, ma % mb, mb, Precision + 1)
         IN  Rounded(SignInt(a.v) * SignInt(b.v), qr[1],
                     FracDigits - ja + jb - (Precision + 1), qr[2] # 0)

\* `a < b` on f64: false when either side is NaN.
FLt(a, b) ==
    IF IsNaN(a) \/ IsNaN(b) THEN FALSE
    ELSE IF IsInf(a) THEN a.v < 0 /\ a # b
    ELSE IF IsInf(b) THEN b.v > 0
    ELSE a.v < b.v

FGt(a, b) == FLt(b, a)

\* f64::min and f64::max: a NaN operand yields the other operand.
FMin(a, b) == IF IsNaN(a) THEN b ELSE IF IsNaN(b) THEN a ELSE IF FLt(b, a) THEN b ELSE a
FMax(a, b) == IF IsNaN(a) THEN b ELSE IF IsNaN(b) THEN a ELSE IF FLt(a, b) THEN b ELSE a

\* Schoolbook square root of the integer m: <<root, remainder>>.
RECURSIVE SqrtRem(_)
SqrtRem(m) ==
    IF m = 0 THEN <<0, 0>>
    ELSE LET pc0 == SqrtRem(m \div 100)
             c == 100 * pc0[2] + (m % 100)
             x == CHOOSE d \in 0..9 :
                     /\ d * (20 * pc0[1] + d) <= c
                     /\ (d = 9 \/ (d + 1) * (20 * pc0[1] + d + 1) > c)
         IN  <<10 * pc0[1] + x, c - x * (20 * pc0[1] + x)>>

\* `steps` more digits of the root.
RECURSIVE SqrtExtend(_, _, _)
SqrtExtend(p, c, steps) ==
    IF steps = 0 THEN <<p, c>>
    ELSE LET c2 == 100 * c
             x == CHOOSE d \in 0..9 :
                     /\ d * (20 * p + d) <= c2
                     /\ (d = 9 \/ (d + 1) * (20 * p + d + 1) > c2)
         IN  SqrtExtend(10 * p + x, c2 - x * (20 * p + x), steps - 1)

\* f64::sqrt
FSqrt(a) ==
    IF IsNaN(a) THEN NaN
    ELSE IF a.v < 0 THEN NaN
    ELSE IF IsInf(a) THEN PInf
    ELSE IF a.v = 0 THEN Zero
    ELSE LET k == TrailingZeros(a.v)
             odd == (k - FracDigits) % 2 # 0
             m == IF odd THEN 10 * (a.v \div Pow10(k)) ELSE a.v \div Pow10(k)
             e == IF odd THEN k - FracDigits - 1 ELSE k - FracDigits
             pr == SqrtRem(m)
             more == Precision + 1 - Digits(pr[1])
             ext == SqrtExtend(pr[1], pr[2], more)
         IN  Rounded(1, ext[1], FracDigits + (e \div 2) - more, ext[2] # 0)

\* f64::EPSILON: the gap between 1.0 and the next larger value.
Epsilon == Dec(1, Precision - 1)

\* f64::powi (compiler-rt __powidf2, n >= 0): square and multiply.
RECURSIVE PowiLoop(_, _, _)
PowiLoop(r, a, b) ==
    LET r2 == IF b % 2 = 1 THEN FMul(r, a) ELSE r
    IN  IF b \div 2 = 0 THEN r2 ELSE PowiLoop(r2, FMul(a, a), b \div 2)

Powi(a, n) == PowiLoop(One, a, n)

\* Iterator::sum::<f64>(): a left fold of + from 0.0.
RECURSIVE SumFrom(_, _)
SumFrom(acc, s) == IF s = <<>> THEN acc ELSE SumFrom(FAdd(acc, Head(s)), Tail(s))

SeqSum(s) == SumFrom(Zero, s)

\* ------------------------------------------------------------------ npv.rs
\* `(1.0 + rate).abs() < f64::EPSILON`
Degenerate(rate) == FLt(FAbs(FAdd(One, rate)), Epsilon)

NpvTermGuardAfterFirst(flow, year, rate) ==
    IF year > 0 /\ Degenerate(rate) THEN Zero
    ELSE FDiv(flow, Powi(FAdd(One, rate), year))

\* The closure of calculate_npv_from_slice: one period's contribution.
NpvTerm(flow, year, rate) ==
    IF Degenerate(rate) THEN Zero
    ELSE FDiv(flow, Powi(FAdd(One, rate), year))

calculate_npv_from_slice(flows, rate) ==
    IF Len(flows) = 0 THEN Zero
    ELSE SeqSum([t \in 1..Len(flows) |-> NpvTerm(flows[t], t - 1, rate)])

\* A buffer argument: a null pointer, or a pointer to `data` (len = Len(data)).
NullBuf == [null |-> TRUE, data |-> <<>>]
Buf(data) == [null |-> FALSE, data |-> data]

calculate_npv(cash_flows, discount_rate) ==
    IF cash_flows.null \/ Len(cash_flows.data) = 0 THEN Zero
    ELSE calculate_npv_from_slice(cash_flows.data, discount_rate)

\* ------------------------------------------------------------------ irr.rs
\* `let max_iterations = 100`
max_iterations == 100
\* `let delta = 0.0001`, as the number of decimal places of the literal.
DeltaDigits == 4
\* `let mut rate = 0.1`, as the number of decimal places of the literal.
InitialGuessDigits == 1

tolerance == Dec(1, ToleranceDigits)
delta == Dec(1, DeltaDigits)
initial_guess == Dec(1, InitialGuessDigits)

\* ------------------------------------------------------------ input sets
\* Longest cash-flow series the host passes.
MaxLen == 3
FlowValues == {FromInt(-10), Zero, FromInt(5), FromInt(11), FromInt(12)}

RECURSIVE SeqsUpTo(_, _)
SeqsUpTo(S, n) ==
    IF n = 0 THEN {<<>>}
    ELSE LET shorter == SeqsUpTo(S, n - 1)
         IN  shorter \cup {Append(s, x) : s \in {t \in shorter : Len(t) = n - 1}, x \in S}

FlowSeries == SeqsUpTo(FlowValues, MaxLen)

\* Series passed to the simulator and the sweep (a prefix of each is passed
\* when MaxLen is shorter).
ProjectSeries ==
    { <<>>,
      <<FromInt(-10), FromInt(11)>>,
      <<FromInt(-2), FromInt(11), FromInt(-2)>>,
      <<FromInt(7)>> }
\* The rate just above -1: 1 + rate is half of f64::EPSILON.
NearMinusOne == FAdd(FromInt(-1), FDiv(Epsilon, FromInt(2)))
Rates == {Dec(1, 1), Dec(7, 2), FromInt(-1)}
\* Discount rates passed to the simulator.
McRates == {Dec(1, 1), FromInt(-1)}

\* Largest iteration count passed to the simulator.
MaxMcIterations == 5
\* Largest rayon pool.
MaxThreads == 2
\* Largest seed passed to the simulator.
MaxSeed == 1
\* (price, cost, production) standard deviations.
Uncertainties ==
    { <<Zero, Zero, Zero>>,
      <<Dec(3, 1), Dec(2, 1), Dec(1, 1)>>,
      <<Dec(-3, 1), Zero, Zero>>,
      <<Zero, Dec(-2, 1), Zero>>,
      <<Zero, Zero, Dec(-1, 1)>> }

\* Largest step count passed to the sweep.
MaxSteps == 2
\* Largest variable selector passed to the sweep (0..3 are recognised).
MaxVariable == 4
Ranges ==
    { <<Dec(1, 1), Dec(1, 1)>>,
      <<Zero, Dec(2, 1)>>,
      <<Dec(5, 1), Dec(15, 1)>>,
      <<Dec(-5, 1), Dec(15, 1)>>,
      <<FromInt(-1), One>> }
CostRatios == {<<Dec(25, 2), Dec(75, 2)>>, <<Dec(5, 1), Dec(3, 1)>>}

\* ------------------------------------------------------------------ state
VARIABLES
    pc,      \* "idle", the step of the entry point that is running, or "returned"
    args,    \* the arguments of the call
    loc,     \* the locals of the call
    out,     \* the caller's result buffer, slot by slot
    ret      \* the returned value: "none", "true", "false", "void", "abort"

vars == <<pc, args, loc, out, ret>>

\* A slot of the caller's buffer that the call has not written.
Unwritten == [k |-> "unwritten", v |-> 0]
\* A work item no worker has computed yet.
Pending == [k |-> "pending", v |-> 0]
NoArgs == [fn |-> "none"]
NoLoc == [fn |-> "none"]

Init ==
    /\ pc = "idle"
    /\ args = NoArgs
    /\ loc = NoLoc
    /\ out = <<>>
    /\ ret = "none"

\* ------------------------------------------------------------------ irr.rs
\* The host calls calculate_irr(cash_flows, len, result).
CallIrr ==
    /\ pc = "idle"
    /\ \E f \in FlowSeries :
          args' = [fn |-> "calculate_irr", flows |-> f]
    /\ loc' = [fn |-> "calculate_irr", rate |-> initial_guess, i |-> 0, tested |-> <<>>]
    /\ out' = <<Unwritten>>
    /\ ret' = "none"
    /\ pc' = "irr"

\* `let derivative = (calculate_npv_from_slice(flows, rate + delta) - npv) / delta`
IrrDerivative(flows, rate) ==
    FDiv(FSub(calculate_npv_from_slice(flows, FAdd(rate, delta)),
              calculate_npv_from_slice(flows, rate)),
         delta)

\* `rate = rate - npv / derivative`
IrrNextRate(flows, rate) ==
    LET npv == calculate_npv_from_slice(flows, rate)
        derivative == IrrDerivative(flows, rate)
    IN  FSub(rate, FDiv(npv, derivative))

IrrConvergedNoAbs(flows, rate) ==
    FLt(calculate_npv_from_slice(flows, rate), tolerance)

IrrConverged(flows, rate) ==
    FLt(FAbs(calculate_npv_from_slice(flows, rate)), tolerance)

IrrLoopContinuesInclusive(i) == i <= max_iterations

\* `for _ in 0..max_iterations`: the pass with index i runs.
IrrLoopContinues(i) == i < max_iterations

\* One pass of the loop; `tested` records the iterates the test has seen.
IrrIterate ==
    /\ pc = "irr"
    /\ IrrLoopContinues(loc.i)
    /\ IF IrrConverged(args.flows, loc.rate)
       THEN /\ out' = <<loc.rate>>
            /\ ret' = "true"
            /\ pc' = "returned"
            /\ loc' = [loc EXCEPT !.tested = Append(@, loc.rate)]
       ELSE /\ loc' = [loc EXCEPT !.rate = IrrNextRate(args.flows, loc.rate),
                                  !.i = @ + 1,
                                  !.tested = Append(@, loc.rate)]
            /\ UNCHANGED <<out, ret, pc>>
    /\ UNCHANGED args

\* The loop ran out: `false  // Failed to converge`.
IrrExhausted ==
    /\ pc = "irr"
    /\ ~IrrLoopContinues(loc.i)
    /\ ret' = "false"
    /\ pc' = "returned"
    /\ UNCHANGED <<args, loc, out>>

\* ---------------------------------------------------------- monte_carlo.rs
\* Normal::new(0.0, std_dev): whether the distribution is constructed.  The
\* crate is a dependency whose release the sources do not pin: rand_distr up
\* to 0.3 refuses `!(std_dev >= 0.0)`, rand_distr 0.4 and later refuse only a
\* non-finite std_dev.  `lenient` is which of the two the build links.
NormalNew(std_dev, lenient) ==
    IF lenient THEN IsFin(std_dev)
    ELSE ~IsNaN(std_dev) /\ ~FLt(std_dev, Zero)

\* The standard normal variate that draw number k of StdRng::seed_from_u64(s)
\* yields: a fixed function of the seed and the position in its stream.
ZTable == <<Dec(-13, 1), Dec(7, 1), Zero, Dec(21, 1), Dec(-4, 1), Dec(11, 1), Dec(-8, 1)>>
StandardNormal(s, k) == ZTable[((3 * s + 5 * k + s * k) % Len(ZTable)) + 1]

\* Normal::sample: mean + std_dev * z with mean 0.0.
NormalSample(std_dev, s, k) == FAdd(Zero, FMul(std_dev, StandardNormal(s, k)))

\* The contribution of period t (zero-based) to the sample of the iteration
\* seeded with s; period t >= 1 takes draws 2(t-1) and 2(t-1)+1 of the stream.
McTerm(a, value, t, s) ==
    IF t = 0 THEN value
    ELSE LET production_var == NormalSample(a.production_uncertainty, s, 2 * (t - 1))
             sd == IF FGt(value, Zero) THEN a.price_uncertainty ELSE a.cost_uncertainty
             price_or_cost_var == NormalSample(sd, s, 2 * (t - 1) + 1)
             adjusted_value == FMul(FMul(value, FAdd(One, price_or_cost_var)),
                                    FAdd(One, production_var))
         IN  FDiv(adjusted_value, Powi(FAdd(One, a.discount_rate), t))

\* The NPV sample of iteration i (zero-based): a fresh generator seeded seed + i.
McSampleOf(a, i) ==
    LET values == a.base_values.data
        iteration_seed == a.seed + i
    IN  SeqSum([t \in 1..Len(values) |-> McTerm(a, values[t], t - 1, iteration_seed)])

\* rayon's par_iter().sum() over s: the sums its adaptive splitting can
\* produce.  A piece is halved while its splitter allows (a budget that starts
\* at the pool size, halves at each split and is refilled when the piece was
\* stolen); an unsplit piece is summed left to right.
RECURSIVE ParSums(_, _, _, _)
ParSums(s, splits, migrated, threads) ==
    LET len == Len(s)
        mid == len \div 2
        budget == IF migrated THEN MaxOf(threads, splits \div 2) ELSE splits \div 2
        steal == IF threads > 1 THEN {FALSE, TRUE} ELSE {FALSE}
    IN  IF mid >= 1 /\ (migrated \/ splits > 0)
        THEN { FAdd(l, r) :
                 l \in ParSums(SubSeq(s, 1, mid), budget, FALSE, threads),
                 r \in UNION { ParSums(SubSeq(s, mid + 1, len), budget, m, threads) : m \in steal } }
        ELSE {SeqSum(s)}

ParSum(s, threads) == ParSums(s, threads, FALSE, threads)

RECURSIVE FoldMin(_, _)
FoldMin(acc, s) == IF s = <<>> THEN acc ELSE FoldMin(FMin(acc, Head(s)), Tail(s))
RECURSIVE FoldMax(_, _)
FoldMax(acc, s) == IF s = <<>> THEN acc ELSE FoldMax(FMax(acc, Head(s)), Tail(s))

\* The four statistics, given the two parallel sums.
McStatistics(samples, iterations, sum, sqsum) ==
    LET mean == FDiv(sum, FromInt(iterations))
        variance == FDiv(sqsum, FromInt(iterations))
    IN  <<mean, FSqrt(variance), FoldMin(PInf, samples), FoldMax(NInf, samples)>>

SquaredDeviations(samples, mean) ==
    [j \in 1..Len(samples) |-> Powi(FSub(samples[j], mean), 2)]

McRejectsOnlyNull(a) ==
    \/ a.base_values.null
    \/ a.results_null

\* The safety checks and the three Normal::new calls: the call is refused.
McRejects(a) ==
    \/ a.base_values.null
    \/ a.results_null
    \/ Len(a.base_values.data) = 0
    \/ a.iterations = 0
    \/ ~NormalNew(a.price_uncertainty, a.lenient)
    \/ ~NormalNew(a.cost_uncertainty, a.lenient)
    \/ ~NormalNew(a.production_uncertainty, a.lenient)

McBuffers == {NullBuf} \cup {Buf(SubSeq(f, 1, MinOf(Len(f), MaxLen))) : f \in ProjectSeries}

\* The host calls run_economic_monte_carlo on a pool of `threads` workers.
CallMonteCarlo ==
    /\ pc = "idle"
    /\ \E b \in McBuffers, n \in 0..MaxMcIterations, u \in Uncertainties,
          s \in 0..MaxSeed, r \in McRates, th \in 1..MaxThreads, rn \in BOOLEAN,
          ln \in BOOLEAN :
          \* one call with a null results buffer; the crate's release matters
          \* only to a call that passes a negative standard deviation
          /\ rn => (n = 1 /\ s = 0 /\ th = 1)
          /\ ln => \E j \in 1..3 : FLt(u[j], Zero)
          /\ args' = [fn |-> "run_economic_monte_carlo", base_values |-> b,
                      iterations |-> n, price_uncertainty |-> u[1],
                      cost_uncertainty |-> u[2], production_uncertainty |-> u[3],
                      seed |-> s, discount_rate |-> r, results_null |-> rn,
                      threads |-> th, lenient |-> ln]
          /\ out' = IF rn THEN <<>> ELSE <<Unwritten, Unwritten, Unwritten, Unwritten>>
    /\ loc' = [fn |-> "run_economic_monte_carlo", samples |-> <<>>]
    /\ ret' = "none"
    /\ pc' = "mc_check"

\* Lines 17-37: refuse the call, or set up the iterations.
McValidate ==
    /\ pc = "mc_check"
    /\ IF McRejects(args)
       THEN /\ ret' = "false"
            /\ pc' = "returned"
            /\ UNCHANGED loc
       ELSE /\ loc' = [loc EXCEPT !.samples = [j \in 1..args.iterations |-> Pending]]
            /\ pc' = "mc_sample"
            /\ UNCHANGED ret
    /\ UNCHANGED <<args, out>>

\* A worker computes one iteration; par_extend keeps the samples by index.
McSample ==
    /\ pc = "mc_sample"
    /\ \E j \in 1..Len(loc.samples) :
          /\ loc.samples[j] = Pending
          /\ loc' = [loc EXCEPT !.samples[j] = McSampleOf(args, j - 1)]
    /\ UNCHANGED <<pc, args, out, ret>>

\* Lines 66-85: the statistics, stored to results[0..3].
McReduce ==
    /\ pc = "mc_sample"
    /\ \A j \in 1..Len(loc.samples) : loc.samples[j] # Pending
    /\ \E sum \in ParSum(loc.samples, args.threads) :
          LET mean == FDiv(sum, FromInt(args.iterations))
          IN  \E sqsum \in ParSum(SquaredDeviations(loc.samples, mean), args.threads) :
                 out' = McStatistics(loc.samples, args.iterations, sum, sqsum)
    /\ ret' = "true"
    /\ pc' = "returned"
    /\ UNCHANGED <<args, loc>>

\* ---------------------------------------------------------- sensitivity.rs
calculate_npv_with_rate(cash_flows, discount_rate) ==
    calculate_npv(Buf(cash_flows), discount_rate)

VolumeFactorBaseIsRangeMax(cash_flows, factor, discount_rate, fixed_cost_ratio, range_min, range_max) ==
    LET base_volume == range_max
        relative_factor == IF FGt(factor, Zero) THEN FDiv(factor, base_volume) ELSE Zero
        Scale(cf) ==
            IF FGt(cf, Zero) THEN FMul(cf, relative_factor)
            ELSE LET fixed_portion == FMul(cf, fixed_cost_ratio)
                     variable_portion == FMul(cf, FSub(One, fixed_cost_ratio))
                 IN  FAdd(fixed_portion, FMul(variable_portion, relative_factor))
        modified_flows ==
            [t \in 1..Len(cash_flows) |->
                IF t = 1 THEN cash_flows[1] ELSE Scale(cash_flows[t])]
    IN  calculate_npv(Buf(modified_flows), discount_rate)

\* In each transformation, modified_flows is cash_flows[1..] mapped by the
\* closure (Scale), behind the untouched initial investment cash_flows[0].
calculate_with_volume_factor(cash_flows, factor, discount_rate, fixed_cost_ratio, range_min, range_max) ==
    LET base_volume == FDiv(FAdd(range_max, range_min), FromInt(2))
        relative_factor == IF FGt(factor, Zero) THEN FDiv(factor, base_volume) ELSE Zero
        Scale(cf) ==
            IF FGt(cf, Zero) THEN FMul(cf, relative_factor)
            ELSE LET fixed_portion == FMul(cf, fixed_cost_ratio)
                     variable_portion == FMul(cf, FSub(One, fixed_cost_ratio))
                 IN  FAdd(fixed_portion, FMul(variable_portion, relative_factor))
        modified_flows ==
            [t \in 1..Len(cash_flows) |->
                IF t = 1 THEN cash_flows[1] ELSE Scale(cash_flows[t])]
    IN  calculate_npv(Buf(modified_flows), discount_rate)

calculate_with_opex_factor(cash_flows, factor, discount_rate, fixed_cost_ratio, variable_cost_ratio) ==
    LET Scale(cf) ==
            LET variable_cost_portion == FMul(FAbs(cf), variable_cost_ratio)
                fixed_portion == FMul(FAbs(cf), fixed_cost_ratio)
                revenue_portion == FAdd(cf, variable_cost_portion)
            IN  FSub(FSub(revenue_portion, FMul(variable_cost_portion, factor)),
                     fixed_portion)
        modified_flows ==
            [t \in 1..Len(cash_flows) |->
                IF t = 1 THEN cash_flows[1] ELSE Scale(cash_flows[t])]
    IN  calculate_npv(Buf(modified_flows), discount_rate)

calculate_with_revenue_factor(cash_flows, factor, discount_rate) ==
    LET Scale(cf) == IF FGt(cf, Zero) THEN FMul(cf, factor) ELSE cf
        modified_flows ==
            [t \in 1..Len(cash_flows) |->
                IF t = 1 THEN cash_flows[1] ELSE Scale(cash_flows[t])]
    IN  calculate_npv(Buf(modified_flows), discount_rate)

\* `let step_size = (range_max - range_min) / (steps as f64)`
StepSize(a) == FDiv(FSub(a.range_max, a.range_min), FromInt(a.steps))

\* `let factor = range_min + (i as f64) * step_size`
Factor(a, i) == FAdd(a.range_min, FMul(FromInt(i), StepSize(a)))

\* `cash_flows[0]` of an empty slice panics; the panic leaves the extern "C"
\* function by aborting the process.
SensPanics(a) == a.variable_index \in {1, 2, 3} /\ Len(a.values) = 0

SensMatchFallbackToFactor(a, factor) ==
    CASE a.variable_index = 0 -> calculate_npv_with_rate(a.values, factor)
      [] a.variable_index = 1 ->
           calculate_with_volume_factor(a.values, factor, a.discount_rate,
                                        a.fixed_cost_ratio, a.range_min, a.range_max)
      [] a.variable_index = 2 ->
           calculate_with_opex_factor(a.values, factor, a.discount_rate,
                                      a.fixed_cost_ratio, a.variable_cost_ratio)
      [] a.variable_index = 3 ->
           calculate_with_revenue_factor(a.values, factor, a.discount_rate)
      [] OTHER -> calculate_npv_with_rate(a.values, factor)

SensMatchRateFromArgument(a, factor) ==
    CASE a.variable_index = 0 -> calculate_npv_with_rate(a.values, FAdd(a.discount_rate, factor))
      [] a.variable_index = 1 ->
           calculate_with_volume_factor(a.values, factor, a.discount_rate,
                                        a.fixed_cost_ratio, a.range_min, a.range_max)
      [] a.variable_index = 2 ->
           calculate_with_opex_factor(a.values, factor, a.discount_rate,
                                      a.fixed_cost_ratio, a.variable_cost_ratio)
      [] a.variable_index = 3 ->
           calculate_with_revenue_factor(a.values, factor, a.discount_rate)
      [] OTHER -> calculate_npv_with_rate(a.values, a.discount_rate)

\* `match variable_index { .. }`: the evaluation at `factor`.
SensMatch(a, factor) ==
    CASE a.variable_index = 0 -> calculate_npv_with_rate(a.values, factor)
      [] a.variable_index = 1 ->
           calculate_with_volume_factor(a.values, factor, a.discount_rate,
                                        a.fixed_cost_ratio, a.range_min, a.range_max)
      [] a.variable_index = 2 ->
           calculate_with_opex_factor(a.values, factor, a.discount_rate,
                                      a.fixed_cost_ratio, a.variable_cost_ratio)
      [] a.variable_index = 3 ->
           calculate_with_revenue_factor(a.values, factor, a.discount_rate)
      [] OTHER -> calculate_npv_with_rate(a.values, a.discount_rate)

\* The closure of the parallel map: the evaluation of step i.
SensEval(a, i) == SensMatch(a, Factor(a, i))

SensCollectByCompletion(done, order) == [j \in 1..Len(order) |-> done[order[j]]]

\* collect() of the indexed parallel map: the evaluations by step index,
\* whatever the order `order` in which the workers finished them.
SensCollect(done, order) == done

\* The host calls run_sensitivity_analysis; results has room for steps+1 values.
CallSensitivity ==
    /\ pc = "idle"
    /\ \E f \in ProjectSeries, v \in 0..MaxVariable, rg \in Ranges, n \in 0..MaxSteps,
          r \in Rates, c \in CostRatios :
          /\ args' = [fn |-> "run_sensitivity_analysis",
                      values |-> SubSeq(f, 1, MinOf(Len(f), MaxLen)),
                      variable_index |-> v, range_min |-> rg[1], range_max |-> rg[2],
                      steps |-> n, discount_rate |-> r,
                      fixed_cost_ratio |-> c[1], variable_cost_ratio |-> c[2]]
          /\ loc' = [fn |-> "run_sensitivity_analysis",
                     done |-> [j \in 1..(n + 1) |-> Pending], order |-> <<>>]
          /\ out' = [j \in 1..(n + 1) |-> Unwritten]
    /\ ret' = "none"
    /\ pc' = "sens_map"

\* A worker evaluates one step of `(0..=steps).into_par_iter().map(..)`.
SensStep ==
    /\ pc = "sens_map"
    /\ \E j \in 1..Len(loc.done) :
          /\ loc.done[j] = Pending
          /\ IF SensPanics(args)
             THEN /\ ret' = "abort"
                  /\ pc' = "returned"
                  /\ UNCHANGED loc
             ELSE /\ loc' = [loc EXCEPT !.done[j] = SensEval(args, j - 1),
                                        !.order = Append(@, j)]
                  /\ UNCHANGED <<ret, pc>>
    /\ UNCHANGED <<args, out>>

\* Lines 52-59: collect, then store every collected value to results[i].
SensStore ==
    /\ pc = "sens_map"
    /\ \A j \in 1..Len(loc.done) : loc.done[j] # Pending
    /\ out' = SensCollect(loc.done, loc.order)
    /\ ret' = "void"
    /\ pc' = "returned"
    /\ UNCHANGED <<args, loc>>

\* ------------------------------------------------------------------ npv.rs
\* The host calls calculate_npv(cash_flows, len, discount_rate).
CallNpv ==
    /\ pc = "idle"
    /\ \E b \in {NullBuf} \cup {Buf(f) : f \in FlowSeries}, r \in Rates \cup {NearMinusOne} :
          /\ args' = [fn |-> "calculate_npv", cash_flows |-> b, discount_rate |-> r]
          /\ out' = <<calculate_npv(b, r)>>
    /\ loc' = [fn |-> "calculate_npv"]
    /\ ret' = "value"
    /\ pc' = "returned"

\* The host takes the result; the next call starts from scratch.
Return ==
    /\ pc = "returned"
    /\ pc' = "idle"
    /\ args' = NoArgs
    /\ loc' = NoLoc
    /\ out' = <<>>
    /\ ret' = "none"

Next ==
    \/ CallNpv
    \/ CallIrr
    \/ IrrIterate
    \/ IrrExhausted
    \/ CallMonteCarlo
    \/ McValidate
    \/ McSample
    \/ McReduce
    \/ CallSensitivity
    \/ SensStep
    \/ SensStore
    \/ Return

Spec == Init /\ [][Next]_vars

\* ------------------------------------------------------------------ claims
InIrr == args.fn = "calculate_irr"
IrrReturned == InIrr /\ pc = "returned"
InMc == args.fn = "run_economic_monte_carlo"
McReturned == InMc /\ pc = "returned"
InSens == args.fn = "run_sensitivity_analysis"
SensReturned == InSens /\ pc = "returned"
NpvReturned == args.fn = "calculate_npv" /\ pc = "returned"
AllUnwritten(buffer) == \A j \in 1..Len(buffer) : buffer[j] = Unwritten
WithinTolerance(flows, rate) ==
    FLt(FAbs(calculate_npv(Buf(flows), rate)), tolerance)

\* C1: calculate_irr tests at most 100 iterates, and when none of the iterates
\* it tested has |npv| < 1e-6 it returns false with the result slot unwritten.
C1_IrrCapAndFailure ==
    InIrr =>
        /\ Len(loc.tested) <= 100
        /\ ret = "false" => (out = <<Unwritten>> /\ Len(loc.tested) = 100)
        /\ (pc = "returned"
            /\ \A j \in 1..Len(loc.tested) : ~WithinTolerance(args.flows, loc.tested[j]))
           => (ret = "false" /\ out = <<Unwritten>>)

C1_Witness ==
    /\ IrrReturned
    /\ ret = "false"
    /\ Len(args.flows) >= 2
    /\ Len(loc.tested) = 100
    /\ \A j \in 1..Len(loc.tested) : ~WithinTolerance(args.flows, loc.tested[j])

\* C2: when calculate_irr returns true, the rate in the result slot is the
\* iterate the convergence test passed on, and |npv(flows, rate)| < 1e-6.
C2_IrrSuccessIsRoot ==
    (IrrReturned /\ ret = "true") =>
        /\ out = <<loc.tested[Len(loc.tested)]>>
        /\ WithinTolerance(args.flows, out[1])

C2_Witness ==
    /\ IrrReturned
    /\ ret = "true"
    /\ Len(loc.tested) > 1
    /\ IsFin(out[1])
    /\ WithinTolerance(args.flows, out[1])

\* C3: for a rate with |1 + rate| below machine epsilon, npv of any series is
\* exactly 0 (no term is divided, nothing infinite or NaN comes out).
C3_NpvDegenerateIsZero ==
    (NpvReturned /\ ~args.cash_flows.null
     /\ FLt(FAbs(FAdd(One, args.discount_rate)), Epsilon))
        => out = <<Zero>>

C3_Witness ==
    /\ NpvReturned
    /\ args.discount_rate = NearMinusOne
    /\ Len(args.cash_flows.data) >= 2
    /\ args.cash_flows.data[1] # Zero
    /\ out = <<Zero>>

NegativeStdDev(a) ==
    \/ FLt(a.price_uncertainty, Zero)
    \/ FLt(a.cost_uncertainty, Zero)
    \/ FLt(a.production_uncertainty, Zero)

\* C4: run_economic_monte_carlo returns false, writes nothing and computes no
\* sample when flows is null or empty, iterations is 0, or one of the three
\* standard deviations is negative.
C4_McRejectsInvalid ==
    (InMc /\ pc # "mc_check"
     /\ (\/ args.base_values.null
         \/ Len(args.base_values.data) = 0
         \/ args.iterations = 0
         \/ NegativeStdDev(args)))
        => /\ pc = "returned"
           /\ ret = "false"
           /\ AllUnwritten(out)
           /\ loc.samples = <<>>

\* C5: every sample is a function of the inputs and seed + i alone, and so the
\* four outputs are the same for every pool size and every execution order:
\* they are the ones a single worker produces.
C5_McDeterministic ==
    /\ (InMc /\ pc \in {"mc_sample", "returned"})
          => \A j \in 1..Len(loc.samples) :
                loc.samples[j] \in {Pending, McSampleOf(args, j - 1)}
    /\ (McReturned /\ ret = "true")
          => \E sum \in ParSum(loc.samples, 1) :
                \E sqsum \in ParSum(SquaredDeviations(loc.samples,
                                        FDiv(sum, FromInt(args.iterations))), 1) :
                   out = McStatistics(loc.samples, args.iterations, sum, sqsum)

\* The factor of step i as the sweep is specified:
\* range_min + i * (range_max - range_min) / steps.
StepFactor(a, i) ==
    FAdd(a.range_min,
         FMul(FromInt(i), FDiv(FSub(a.range_max, a.range_min), FromInt(a.steps))))

\* C6: with steps >= 1 the sweep writes exactly steps + 1 values, results[i]
\* being the evaluation at the factor of step i (step 0 at range_min itself),
\* in whatever order the workers finished the steps.
C6_SweepOrderedByStep ==
    (SensReturned /\ ret = "void" /\ args.steps >= 1) =>
        /\ Len(out) = args.steps + 1
        /\ Len(loc.order) = args.steps + 1
        /\ StepFactor(args, 0) = args.range_min
        /\ \A i \in 0..args.steps : out[i + 1] = SensMatch(args, StepFactor(args, i))

\* A sweep whose workers finished the steps out of index order.
C6_Witness ==
    /\ SensReturned
    /\ ret = "void"
    /\ args.steps >= 2
    /\ loc.order[1] > loc.order[2]
    /\ out[loc.order[1]] # out[loc.order[2]]
    /\ \A i \in 0..args.steps : out[i + 1] = SensMatch(args, StepFactor(args, i))

\* C7: with iterations = 1 and the three standard deviations 0, the simulator
\* succeeds with mean = min = max = npv(flows, discount_rate) and stdDev = 0,
\* for every non-empty series and every rate npv accepts.
C7_McZeroNoiseIsNpv ==
    (McReturned /\ ~args.base_values.null /\ ~args.results_null
     /\ Len(args.base_values.data) > 0 /\ args.iterations = 1
     /\ args.price_uncertainty = Zero /\ args.cost_uncertainty = Zero
     /\ args.production_uncertainty = Zero)
        => /\ ret = "true"
           /\ LET npv == calculate_npv(args.base_values, args.discount_rate)
              IN  out = <<npv, Zero, npv, npv>>

\* C8: for variable 0 (DiscountRate) every result is npv(flows, factor_i),
\* whatever discount_rate and the two cost ratios are; range_min = range_max
\* = r0 with steps = 1 gives [npv(flows, r0), npv(flows, r0)].
C8_RateSweepIgnoresRateArgument ==
    (SensReturned /\ ret = "void" /\ args.variable_index = 0) =>
        /\ \A i \in 0..args.steps :
              out[i + 1] = calculate_npv(Buf(args.values), StepFactor(args, i))
        /\ (args.range_min = args.range_max /\ args.steps = 1)
              => out = << calculate_npv(Buf(args.values), args.range_min),
                          calculate_npv(Buf(args.values), args.range_min) >>

\* A discount-rate sweep over a single rate that is not the discount_rate
\* argument, whose result differs from the valuation at that argument.
C8_Witness ==
    /\ SensReturned
    /\ ret = "void"
    /\ args.variable_index = 0
    /\ args.range_min = args.range_max
    /\ args.steps = 1
    /\ args.range_min # args.discount_rate
    /\ out[1] # calculate_npv(Buf(args.values), args.discount_rate)
    /\ out = << calculate_npv(Buf(args.values), args.range_min),
                calculate_npv(Buf(args.values), args.range_min) >>

\* C9: a variable selector outside 0..3 gives steps + 1 results, each the npv
\* of the unmodified flows at the discount_rate argument.
C9_UnknownVariableFallsBack ==
    (SensReturned /\ args.variable_index \notin 0..3) =>
        /\ ret = "void"
        /\ Len(out) = args.steps + 1
        /\ \A j \in 1..Len(out) :
              out[j] = calculate_npv(Buf(args.values), args.discount_rate)

\* An unrecognised selector swept over a range of factors that would change
\* the valuation had any of them been used.
C9_Witness ==
    /\ SensReturned
    /\ args.variable_index \notin 0..3
    /\ args.steps >= 1
    /\ Len(args.values) >= 2
    /\ args.range_min # args.range_max
    /\ calculate_npv(Buf(args.values), args.range_max)
          # calculate_npv(Buf(args.values), args.discount_rate)
    /\ \A j \in 1..Len(out) :
          out[j] = calculate_npv(Buf(args.values), args.discount_rate)

\* C10: calculate_irr on an empty series is refused: it returns false and
\* writes no rate.
C10_IrrRefusesEmpty ==
    (IrrReturned /\ Len(args.flows) = 0) => (ret = "false" /\ out = <<Unwritten>>)

\* C11: run_sensitivity_analysis called with an empty series or with steps = 0
\* detects it before any evaluation, for every variable selector: no step is
\* evaluated, nothing is written to results, and the call does not fault.
C11_SweepRefusesInvalid ==
    (InSens /\ (Len(args.values) = 0 \/ args.steps = 0)) =>
        /\ ret # "abort"
        /\ loc.order = <<>>
        /\ AllUnwritten(out)

\* C12: calculate_irr never performs the update rate - npv / derivative with a
\* derivative of 0: every iterate it has updated (the first loc.i of the
\* iterates it tested) had a nonzero finite-difference derivative, and a call
\* that returns true returns a finite rate.
C12_IrrGuardsZeroDerivative ==
    InIrr =>
        /\ \A j \in 1..loc.i : IrrDerivative(args.flows, loc.tested[j]) # Zero
        /\ ret = "true" => IsFin(out[1])

\* The base volume of a production-volume sweep: (range_min + range_max) / 2.
VolumeMidpoint(a) == FDiv(FAdd(a.range_min, a.range_max), FromInt(2))

\* The series at volume 0: the initial investment as it is, no revenue, and of
\* every cost flow its fixed share.
ZeroVolumeFlows(a) ==
    [t \in 1..Len(a.values) |->
        IF t = 1 THEN a.values[1]
        ELSE IF FGt(a.values[t], Zero) THEN Zero
        ELSE FMul(a.values[t], a.fixed_cost_ratio)]

====
